---- MODULE Spec2Model ----
(***************************************************************************)
(* Model of src/bayasian.py: an expert system built around a four-node    *)
(* Bayesian network (Inteligencia, Dificultad, Asistencia -> Nota).        *)
(*                                                                         *)
(* Probabilities are kept exact.  Every number of a CPD is held in tenths  *)
(* (9 stands for 0.9); a factor is a table of naturals whose common scale  *)
(* cancels when the factor is normalised, and a normalised value is a      *)
(* reduced fraction [n |-> .., d |-> ..].  Floating-point rounding is not  *)
(* modelled.                                                               *)
(*                                                                         *)
(* The calls into the probabilistic library (add_cpds, check_model,        *)
(* VariableElimination.query) are modelled at their call sites by what the *)
(* library computes: add_cpds replaces the CPD of the same variable,       *)
(* check_model raises unless every node has a CPD over itself and its      *)
(* parents whose columns sum to 1, query reduces the factors by the        *)
(* evidence, eliminates the remaining variables by sum-product and         *)
(* normalises.                                                             *)
(***************************************************************************)
EXTENDS Integers, Sequences, FiniteSets, TLC

\* ------------------------------------------------------------------ bounds

\* Longest batch handed to update_knowledge.
MaxBatch == 2

\* Most calls of InferenceEngine.infer made through the form in one run.
MaxCalls == 2

\* ------------------------------------------------------- the network (13-15)

\* variable_card=2 of every TabularCPD.
VariableCard == 2

States == 0 .. (VariableCard - 1)

\* The nodes of BayesianNetwork([...]), in the order the edges introduce them.
NodeOrder == <<"Inteligencia", "Nota", "Dificultad", "Asistencia">>

Nodes == {NodeOrder[k] : k \in 1 .. Len(NodeOrder)}

Edges == {<<"Inteligencia", "Nota">>, <<"Dificultad", "Nota">>, <<"Asistencia", "Nota">>}

Parents(v) == {e[1] : e \in {x \in Edges : x[2] = v}}

\* TabularCPD(variable, variable_card, values, evidence): values[r][c] is
\* P(variable = r-1 | column c), in tenths.
TabularCPD(variable, values, evidence) ==
    [variable |-> variable, values |-> values, evidence |-> evidence]

\* The four CPDs of KnowledgeBase._define_cpds.
cpd_inteligencia == TabularCPD("Inteligencia", <<(<<7>>), (<<3>>)>>, <<>>)

cpd_dificultad == TabularCPD("Dificultad", <<(<<6>>), (<<4>>)>>, <<>>)

cpd_asistencia == TabularCPD("Asistencia", <<(<<8>>), (<<2>>)>>, <<>>)

cpd_nota ==
    TabularCPD("Nota",
               << <<9, 7, 8, 1, 8, 6, 7, 3>>,
                  <<1, 3, 2, 9, 2, 4, 3, 7>> >>,
               <<"Inteligencia", "Dificultad", "Asistencia">>)

\* model.add_cpds(cpd): the CPD of the same variable is replaced, another is added.
add_cpds(model_cpds, cpd) ==
    [v \in (DOMAIN model_cpds) \cup {cpd.variable} |->
        IF v = cpd.variable THEN cpd ELSE model_cpds[v]]

RECURSIVE add_all(_, _)
\* The loop of update_knowledge, and the several arguments of add_cpds at line 29.
add_all(model_cpds, new_cpds) ==
    IF new_cpds = <<>> THEN model_cpds
    ELSE add_all(add_cpds(model_cpds, Head(new_cpds)), Tail(new_cpds))

EmptyCpds == [v \in {} |-> 0]

\* The model's CPDs when _define_cpds has run.
define_cpds ==
    add_all(EmptyCpds, <<cpd_inteligencia, cpd_dificultad, cpd_asistencia, cpd_nota>>)

\* ------------------------------------------------------------- check_model

RECURSIVE Pow2(_)
Pow2(n) == IF n = 0 THEN 1 ELSE VariableCard * Pow2(n - 1)

RECURSIVE SumSeq(_)
SumSeq(s) == IF s = <<>> THEN 0 ELSE Head(s) + SumSeq(Tail(s))

SeqRange(s) == {s[k] : k \in 1 .. Len(s)}

\* The column sums of a CPD are all 1 (10 tenths).
is_valid_cpd(cpd) ==
    /\ Len(cpd.values) = VariableCard
    /\ \A r \in 1 .. Len(cpd.values) : Len(cpd.values[r]) = Pow2(Len(cpd.evidence))
    /\ \A c \in 1 .. Pow2(Len(cpd.evidence)) :
          SumSeq([r \in 1 .. VariableCard |-> cpd.values[r][c]]) = 10

\* model.check_model(): TRUE, or an exception (FALSE here) when a node has no
\* CPD, a CPD's evidence is not the node's parents, or a column does not sum to 1.
check_model(model_cpds) ==
    \A v \in Nodes :
        /\ v \in DOMAIN model_cpds
        /\ SeqRange(model_cpds[v].evidence) = Parents(v)
        /\ Len(model_cpds[v].evidence) = Cardinality(Parents(v))
        /\ is_valid_cpd(model_cpds[v])

\* ------------------------------------------------------------------ factors

\* The joint assignments of a set of variables.
Assignments(scope) == [scope -> States]

Extend(a, v, x) == [u \in (DOMAIN a) \cup {v} |-> IF u = v THEN x ELSE a[u]]

Restrict(a, scope) == [u \in scope |-> a[u]]

RECURSIVE ColumnIndexFirstFastest(_, _, _)
\* The column computed with the first evidence variable varying fastest.
ColumnIndexFirstFastest(evidence, n, a) ==
    IF n = 0 THEN 0
    ELSE a[evidence[Len(evidence) - n + 1]]
         + VariableCard * ColumnIndexFirstFastest(evidence, n - 1, a)

RECURSIVE ColumnIndex(_, _, _)
\* The column of an assignment of the evidence variables: the last one varies fastest.
ColumnIndex(evidence, n, a) ==
    IF n = 0 THEN 0
    ELSE VariableCard * ColumnIndex(evidence, n - 1, a) + a[evidence[n]]

\* cpd.to_factor(): the table of the CPD as a factor over its variable and evidence.
to_factor(cpd) ==
    LET scope == {cpd.variable} \cup SeqRange(cpd.evidence)
    IN  [scope |-> scope,
         val   |-> [a \in Assignments(scope) |->
                      cpd.values[a[cpd.variable] + 1]
                                [ColumnIndex(cpd.evidence, Len(cpd.evidence), a) + 1]]]

\* factor.reduce([(v, x)]): the slice of the factor at v = x.
reduce(f, v, x) ==
    LET scope == f.scope \ {v}
    IN  [scope |-> scope,
         val   |-> [a \in Assignments(scope) |-> f.val[Extend(a, v, x)]]]

\* factor.product(g): the pointwise product over the union of the scopes.
product(f, g) ==
    LET scope == f.scope \cup g.scope
    IN  [scope |-> scope,
         val   |-> [a \in Assignments(scope) |->
                      f.val[Restrict(a, f.scope)] * g.val[Restrict(a, g.scope)]]]

RECURSIVE SumOver(_, _, _, _)
SumOver(f, a, v, x) ==
    IF x < 0 THEN 0 ELSE f.val[Extend(a, v, x)] + SumOver(f, a, v, x - 1)

\* A marginalize that sums out the first variable of the scope, whatever v is.
marginalize_first_axis(f, v) ==
    LET w     == NodeOrder[CHOOSE k \in 1 .. Len(NodeOrder) :
                             /\ NodeOrder[k] \in f.scope
                             /\ \A j \in 1 .. (k - 1) : NodeOrder[j] \notin f.scope]
        scope == f.scope \ {w}
    IN  [scope |-> scope,
         val   |-> [a \in Assignments(scope) |-> SumOver(f, a, w, VariableCard - 1)]]

\* factor.marginalize([v]): v summed out.
marginalize(f, v) ==
    LET scope == f.scope \ {v}
    IN  [scope |-> scope,
         val   |-> [a \in Assignments(scope) |-> SumOver(f, a, v, VariableCard - 1)]]

RECURSIVE SumSet(_, _)
SumSet(f, as) ==
    IF as = {} THEN 0
    ELSE LET a == CHOOSE x \in as : TRUE IN f.val[a] + SumSet(f, as \ {a})

RECURSIVE GCD(_, _)
GCD(a, b) == IF b = 0 THEN a ELSE GCD(b, a % b)

\* The quotient n / d, d > 0, in lowest terms.
Frac(n, d) == [n |-> n \div GCD(n, d), d |-> d \div GCD(n, d)]

NaN == [n |-> 0, d |-> 0]

\* factor.normalize(): every value divided by the sum of the values (0/0 is nan).
normalize(f) ==
    LET total == SumSet(f, Assignments(f.scope))
    IN  [scope |-> f.scope,
         val   |-> [a \in Assignments(f.scope) |->
                      IF total = 0 THEN NaN ELSE Frac(f.val[a], total)]]

\* --------------------------------------------- VariableElimination.query

RECURSIVE reduce_by(_, _, _)
\* The factor reduced by every evidence variable of its scope.
reduce_by(f, evidence, k) ==
    IF k = 0 THEN f
    ELSE LET v == NodeOrder[k]
             g == reduce_by(f, evidence, k - 1)
         IN  IF v \in DOMAIN evidence /\ v \in g.scope THEN reduce(g, v, evidence[v]) ELSE g

UnitFactor == [scope |-> {}, val |-> [a \in Assignments({}) |-> 1]]

RECURSIVE product_all(_)
product_all(fs) ==
    IF fs = <<>> THEN UnitFactor ELSE product(Head(fs), product_all(Tail(fs)))

\* An elimination step that multiplies the factors and forgets to sum v out.
eliminate_no_sum(fs, v) ==
    LET rel  == SelectSeq(fs, LAMBDA f : v \in f.scope)
        rest == SelectSeq(fs, LAMBDA f : v \notin f.scope)
    IN  IF rel = <<>> THEN fs ELSE rest \o <<product_all(rel)>>

\* One elimination step: the factors that mention v are multiplied, v is summed
\* out of the product, and the result replaces them in the working set.
eliminate(fs, v) ==
    LET rel  == SelectSeq(fs, LAMBDA f : v \in f.scope)
        rest == SelectSeq(fs, LAMBDA f : v \notin f.scope)
    IN  IF rel = <<>> THEN fs ELSE rest \o <<marginalize(product_all(rel), v)>>

RECURSIVE eliminate_all(_, _)
eliminate_all(fs, order) ==
    IF order = <<>> THEN fs ELSE eliminate_all(eliminate(fs, Head(order)), Tail(order))

\* The variables a query for Nota has to eliminate.
ToEliminate(evidence) == (Nodes \ {"Nota"}) \ DOMAIN evidence

\* The valid elimination orders: the permutations of the variables to eliminate.
EliminationOrders(evidence) ==
    LET S == ToEliminate(evidence)
    IN  {o \in [1 .. Cardinality(S) -> S] : \A i, j \in DOMAIN o : o[i] = o[j] => i = j}

NoResult == [scope |-> {}, val |-> <<>>]

\* A state outside the variable's states is no key of its state names.
raises_KeyError(evidence) == \E v \in DOMAIN evidence : evidence[v] \notin States

\* infer_engine.query(variables=['Nota'], evidence=evidence), eliminating in `order`.
query(model_cpds, evidence, order) ==
    LET working == [k \in 1 .. Len(NodeOrder) |->
                      reduce_by(to_factor(model_cpds[NodeOrder[k]]), evidence, Len(NodeOrder))]
    IN  normalize(product_all(eliminate_all(working, order)))

\* ----------------------------------------------------------- int(entry.get())

Digits == {"0", "1", "2"}

DigitValue(c) == CASE c = "0" -> 0 [] c = "1" -> 1 [] c = "2" -> 2

RECURSIVE lstrip(_)
lstrip(s) == IF s # <<>> /\ Head(s) = " " THEN lstrip(Tail(s)) ELSE s

RECURSIVE rstrip(_)
rstrip(s) ==
    IF s # <<>> /\ s[Len(s)] = " " THEN rstrip(SubSeq(s, 1, Len(s) - 1)) ELSE s

RECURSIVE DecimalValue(_, _)
DecimalValue(s, n) ==
    IF n = 0 THEN 0 ELSE 10 * DecimalValue(s, n - 1) + DigitValue(s[n])

\* int(text): surrounding blanks are dropped, a sign may lead, and what is left
\* must be decimal digits, at least one; anything else raises ValueError.
py_int(text) ==
    LET t      == rstrip(lstrip(text))
        signed == t # <<>> /\ Head(t) = "-"
        digits == IF signed THEN Tail(t) ELSE t
        ok     == digits # <<>> /\ \A k \in 1 .. Len(digits) : digits[k] \in Digits
        value  == IF ok THEN DecimalValue(digits, Len(digits)) ELSE 0
    IN  [ok |-> ok, value |-> IF signed THEN 0 - value ELSE value]

\* What the user can have typed into an Entry.
Entries ==
    { <<>>, <<"0">>, <<"1">>, <<"2">>, <<"a">>, <<"-">>,
      <<"-", "0">>, <<"-", "1">>, <<" ", "1">>, <<"0", " ">>,
      <<"0", "1">>, <<"1", "0">>, <<"1", "a">> }

\* -------------------------------------------------------------------- state

VARIABLES
    cpds,            \* knowledge_base.model: the CPD attached to each node
    validated,       \* check_model has passed since the CPDs last changed
    facts,           \* fact_base.facts, the one dict the fact base owns
    justifications,  \* justification_subsystem.justifications
    dbFacts,         \* the rows of table facts, in id order
    dbResults,       \* the rows of table results, in id order
    result_label,    \* the text of result_label
    inferLog,        \* the calls of infer made by run_inference, in order
    last             \* the operation that ran last, and how it ended

vars ==
    <<cpds, validated, facts, justifications, dbFacts, dbResults, result_label,
      inferLog, last>>

NoFacts == [k \in {} |-> 0]

Idle ==
    [op |-> "init", outcome |-> "ok", parsed |-> FALSE, values |-> <<0, 0>>,
     before |-> EmptyCpds, evidence |-> NoFacts, called |-> FALSE,
     validated |-> TRUE, reference |-> TRUE, result |-> NoResult]

\* ExpertSystem.__init__: the knowledge base is built and validated, the fact
\* base and the justification list are empty, the tables hold no row.
Init ==
    /\ cpds = define_cpds
    /\ validated = check_model(define_cpds)
    /\ facts = NoFacts
    /\ justifications = <<>>
    /\ dbFacts = <<>>
    /\ dbResults = <<>>
    /\ result_label = [shown |-> FALSE, hundredths |-> 0]
    /\ inferLog = <<>>
    /\ last = Idle

\* ------------------------------------------------------- update_knowledge

\* The CPDs a caller may hand to update_knowledge: for two of the root nodes, a
\* valid prior and one whose column sums to 0.9.
NewCpds ==
    { TabularCPD("Inteligencia", <<(<<5>>), (<<5>>)>>, <<>>),
      TabularCPD("Inteligencia", <<(<<5>>), (<<4>>)>>, <<>>),
      TabularCPD("Dificultad", <<(<<5>>), (<<5>>)>>, <<>>),
      TabularCPD("Dificultad", <<(<<5>>), (<<4>>)>>, <<>>) }

Batches == UNION {[1 .. n -> NewCpds] : n \in 0 .. MaxBatch}

\* KnowledgeAcquisitionSystem.update_knowledge(new_cpds): every CPD is added,
\* then the whole model is checked; a failed check raises and undoes nothing.
update_knowledge(new_cpds) ==
    /\ cpds' = add_all(cpds, new_cpds)
    /\ validated' = check_model(cpds')
    /\ last' = [Idle EXCEPT !.op = "update_knowledge",
                            !.outcome = IF check_model(cpds') THEN "ok" ELSE "raised",
                            !.before = cpds]
    /\ UNCHANGED <<facts, justifications, dbFacts, dbResults, result_label, inferLog>>

\* ------------------------------------------------------------------ infer

\* A query that reduces the model's own CPDs: each evidence variable is left
\* with a CPD that puts all its mass on the observed state.
model_after_query_inplace(model_cpds, evidence) ==
    [v \in DOMAIN model_cpds |->
        IF v \in DOMAIN evidence /\ evidence[v] \in States
        THEN TabularCPD(v, [r \in 1 .. VariableCard |->
                              <<IF r = evidence[v] + 1 THEN 10 ELSE 0>>], <<>>)
        ELSE model_cpds[v]]

\* The model's CPDs when a query has returned: the query works on factors of
\* its own and assigns nothing to the model.
model_after_query(model_cpds, evidence) == model_cpds

\* The evidence a direct caller of infer may pass: values of any of the three
\* parents of Nota, one value beyond the states included.
EvidenceSets ==
    UNION {[S -> 0 .. VariableCard] : S \in SUBSET (Nodes \ {"Nota"})}

\* InferenceEngine.infer(evidence), the library eliminating in `order`.
infer(model_cpds, evidence, order) ==
    IF raises_KeyError(evidence) THEN NoResult ELSE query(model_cpds, evidence, order)

\* A call of InferenceEngine.infer from outside the form.
infer_call(evidence) ==
    \E order \in EliminationOrders(evidence) :
        /\ last' = [Idle EXCEPT !.op = "infer",
                                !.outcome = IF raises_KeyError(evidence)
                                            THEN "raised" ELSE "ok",
                                !.evidence = evidence,
                                !.called = TRUE,
                                !.validated = validated,
                                !.reference = (cpds = define_cpds),
                                !.result = infer(cpds, evidence, order)]
        /\ cpds' = model_after_query(cpds, evidence)
        /\ UNCHANGED <<validated, facts, justifications, dbFacts, dbResults,
                       result_label, inferLog>>

\* ---------------------------------------------------------- run_inference

\* FactBase.add_fact(key, value): the key is set in the dict, in place.
add_fact(fs, key, value) ==
    [k \in (DOMAIN fs) \cup {key} |-> IF k = key THEN value ELSE fs[k]]

\* The dict an object reference stands for: get_facts hands out fact_base.facts
\* itself, not a copy.
Deref(obj) == IF obj = "fact_base.facts" THEN facts ELSE NoFacts

\* JustificationSubsystem.add_justification.
add_justification(js, justification) == Append(js, justification)

\* f"Resultado basado en hechos: {facts}": the text shows the dict as it is now.
FormatFacts(fs) == <<"Resultado basado en hechos: ", fs>>

\* An insert that keeps one row per key: the row of the key is overwritten.
insert_fact_upsert(rows, key, value) ==
    IF \E k \in 1 .. Len(rows) : rows[k][1] = key
    THEN [k \in 1 .. Len(rows) |-> IF rows[k][1] = key THEN <<key, value>> ELSE rows[k]]
    ELSE Append(rows, <<key, value>>)

\* Database.insert_fact: one more row in table facts.
insert_fact(rows, key, value) == Append(rows, <<key, value>>)

\* Database.insert_result: one more row in table results.
insert_result(rows, result) == Append(rows, result)

\* A check that forgets Asistencia.
valid_input_first_only(inteligencia, asistencia) == inteligencia \in {0, 1}

\* Line 137: both values are 0 or 1.
valid_input(inteligencia, asistencia) ==
    inteligencia \in {0, 1} /\ asistencia \in {0, 1}

\* The try block raises ValueError before it changes anything: an entry is no
\* integer, or a value is neither 0 nor 1.
rejected(e1, e2) ==
    \/ ~py_int(e1).ok
    \/ ~py_int(e2).ok
    \/ ~valid_input(py_int(e1).value, py_int(e2).value)

\* f"{result_value:.2f}": the value in hundredths, rounded.
Round2(fr) == (200 * fr.n + fr.d) \div (2 * fr.d)

\* What the handler read from the two entries.
Read(e1, e2) ==
    [Idle EXCEPT !.op = "run_inference",
                 !.parsed = py_int(e1).ok /\ py_int(e2).ok,
                 !.values = IF py_int(e1).ok /\ py_int(e2).ok
                            THEN <<py_int(e1).value, py_int(e2).value>>
                            ELSE <<0, 0>>]

\* A handler that stores Inteligencia as soon as it is read and found valid,
\* before Asistencia is looked at.
show_error_eager(e1, e2) ==
    /\ last' = [Read(e1, e2) EXCEPT !.outcome = "error"]
    /\ facts' = IF py_int(e1).ok /\ py_int(e1).value \in {0, 1}
                THEN add_fact(facts, "Inteligencia", py_int(e1).value)
                ELSE facts
    /\ UNCHANGED <<cpds, validated, justifications, dbFacts, dbResults,
                   result_label, inferLog>>

\* except ValueError: the error box is shown; nothing else is touched.
show_error(e1, e2) ==
    /\ last' = [Read(e1, e2) EXCEPT !.outcome = "error"]
    /\ UNCHANGED <<cpds, validated, facts, justifications, dbFacts, dbResults,
                   result_label, inferLog>>

\* Lines 140-150 for accepted values i, a.
accepted(e1, e2, i, a) ==
    LET facts1 == add_fact(add_fact(facts, "Inteligencia", i), "Asistencia", a)
        called == [Read(e1, e2) EXCEPT !.evidence = facts1,
                                       !.called = TRUE,
                                       !.validated = validated,
                                       !.reference = (cpds = define_cpds)]
    IN  \E order \in EliminationOrders(facts1) :
          LET result       == infer(cpds, facts1, order)
              result_value == result.val[[v \in {"Nota"} |-> 1]]
          IN  /\ Len(inferLog) < MaxCalls
              /\ facts' = facts1
              /\ inferLog' = Append(inferLog,
                                    [obj |-> "fact_base.facts", passed |-> facts1,
                                     inteligencia |-> i, asistencia |-> a])
              /\ cpds' = model_after_query(cpds, facts1)
              /\ IF raises_KeyError(facts1)
                 THEN /\ last' = [called EXCEPT !.outcome = "crash"]
                      /\ UNCHANGED <<justifications, dbFacts, dbResults, result_label>>
                 ELSE /\ justifications' =
                            add_justification(justifications, FormatFacts(facts1))
                      /\ dbFacts' = insert_fact(insert_fact(dbFacts, "Inteligencia", i),
                                                "Asistencia", a)
                      /\ dbResults' = insert_result(dbResults, result_value)
                      /\ result_label' = [shown |-> TRUE, hundredths |-> Round2(result_value)]
                      /\ last' = [called EXCEPT !.result = result]
              /\ UNCHANGED validated

\* UserInterface.run_inference with e1, e2 typed into the two entries.
run_inference(e1, e2) ==
    IF rejected(e1, e2)
    THEN show_error(e1, e2)
    ELSE accepted(e1, e2, py_int(e1).value, py_int(e2).value)

\* ------------------------------------------------------------ specifications

UpdateKnowledge == \E new_cpds \in Batches : update_knowledge(new_cpds)

Infer == \E evidence \in EvidenceSets : infer_call(evidence)

RunInference == \E e1 \in Entries, e2 \in Entries : run_inference(e1, e2)

\* The knowledge base and the inference engine driven by their callers.
NextKB == UpdateKnowledge \/ Infer

SpecKB == Init /\ [][NextKB]_vars

\* The program as it runs: the form's button is the only thing that acts.
NextUI == RunInference

SpecUI == Init /\ [][NextUI]_vars

\* ------------------------------------------------------------------- claims

NotaIs(x) == [v \in {"Nota"} |-> x]

Evidence(i, a) ==
    [v \in {"Inteligencia", "Asistencia"} |-> IF v = "Inteligencia" THEN i ELSE a]

IsPrefix(s, t) == Len(s) <= Len(t) /\ SubSeq(t, 1, Len(s)) = s

\* C1: when update_knowledge raises because the model with the batch added
\* fails check_model, the model holds exactly the CPDs it held before the call.
C1_AllOrNothing ==
    (last.op = "update_knowledge" /\ last.outcome = "raised") => cpds = last.before

\* C2: every call of infer is evaluated against CPDs that have passed
\* check_model since they last changed.
C2_InferOnValidated == last.called => last.validated

\* C3: when both entries are integers and Inteligencia or Asistencia is not 0
\* or 1, run_inference ends in the error outcome and infer is not called.
C3_OutOfDomainRejected ==
    ( /\ last.op = "run_inference"
      /\ last.parsed
      /\ (last.values[1] \notin {0, 1} \/ last.values[2] \notin {0, 1}) )
    => (last.outcome = "error" /\ ~last.called)

C3_Witness ==
    /\ last.op = "run_inference"
    /\ last.parsed
    /\ last.values = <<2, 1>>
    /\ last.outcome = "error"

\* P(Nota=1 | i, a) derived by hand from the tables of _define_cpds:
\* P(Dificultad=0) * P(Nota=1 | i, 0, a) + P(Dificultad=1) * P(Nota=1 | i, 1, a),
\* the column of (i, d, a) being 4i + 2d + a.
HandDerived(i, a) ==
    Frac(6 * cpd_nota.values[2][4 * i + 2 * 0 + a + 1]
         + 4 * cpd_nota.values[2][4 * i + 2 * 1 + a + 1], 100)

\* C4: on the reference model, the value run_inference reports as P(Nota=1) for
\* the evidence {Inteligencia: i, Asistencia: a} is the hand-derived sum over
\* Dificultad; for i = 1, a = 1 it is 0.52 = 13/25.
C4_HandDerivedPosterior ==
    (last.op = "run_inference" /\ last.outcome = "ok" /\ last.reference)
    => /\ dbResults[Len(dbResults)] = HandDerived(last.values[1], last.values[2])
       /\ last.result.val[NotaIs(1)] = HandDerived(last.values[1], last.values[2])
       /\ (last.values = <<1, 1>> => dbResults[Len(dbResults)] = [n |-> 13, d |-> 25])

C4_Witness ==
    /\ last.op = "run_inference"
    /\ last.outcome = "ok"
    /\ last.reference
    /\ last.values = <<1, 0>>
    /\ dbResults[Len(dbResults)] = [n |-> 6, d |-> 25]

\* C5: on the reference model, whatever the evidence over the parents of Nota,
\* every valid elimination order gives the posterior that infer returned.
C5_OrderIndependence ==
    (last.op = "infer" /\ last.outcome = "ok" /\ last.reference)
    => \A order \in EliminationOrders(last.evidence) :
          query(define_cpds, last.evidence, order) = last.result

C5_Witness ==
    /\ last.op = "infer"
    /\ last.outcome = "ok"
    /\ last.reference
    /\ Cardinality(EliminationOrders(last.evidence)) = 6

\* C6: a call of infer leaves the CPDs of the model, and whether they are
\* validated, as they were, whatever the model and the evidence; so the query
\* that ran before it returns the same result again when run after it.
C6_InferLeavesModel ==
    [][last'.op = "infer"
         => /\ cpds' = cpds
            /\ validated' = validated
            /\ (last.op = "infer" /\ last.outcome = "ok")
                  => \A order \in EliminationOrders(last.evidence) :
                        infer(cpds', last.evidence, order) = last.result]_vars

C6_Witness ==
    /\ last.op = "infer"
    /\ last.outcome = "ok"
    /\ ~last.reference
    /\ DOMAIN last.evidence # {}

FracSum(x, y) == Frac(x.n * y.d + y.n * x.d, x.d * y.d)

\* C7: on the reference model, the result of infer for a valid evidence
\* {Inteligencia: i, Asistencia: a} is a distribution over Nota alone whose two
\* values sum to 1.
C7_GenuinePosterior ==
    ( /\ last.called
      /\ last.outcome = "ok"
      /\ last.reference
      /\ DOMAIN last.evidence = {"Inteligencia", "Asistencia"} )
    => /\ last.result.scope = {"Nota"}
       /\ FracSum(last.result.val[NotaIs(0)], last.result.val[NotaIs(1)])
            = [n |-> 1, d |-> 1]

C7_Witness ==
    /\ last.op = "infer"
    /\ last.outcome = "ok"
    /\ last.reference
    /\ last.evidence = Evidence(1, 1)
    /\ last.result.val[NotaIs(1)] = [n |-> 13, d |-> 25]

\* C8: the evidence passed to infer in each call of run_inference was exactly
\* the two values entered in that call, and the object passed still reads so
\* after every later call.
C8_FreshEvidence ==
    \A k \in 1 .. Len(inferLog) :
        /\ inferLog[k].passed = Evidence(inferLog[k].inteligencia, inferLog[k].asistencia)
        /\ Deref(inferLog[k].obj) = inferLog[k].passed

\* C9: a call of run_inference that ends in the invalid-input error leaves the
\* fact base, the justifications and both tables as they were.
C9_RejectedChangesNothing ==
    [][(last'.op = "run_inference" /\ last'.outcome = "error")
         => UNCHANGED <<facts, justifications, dbFacts, dbResults>>]_vars

C9_Witness ==
    /\ last.op = "run_inference"
    /\ last.outcome = "error"
    /\ last.parsed
    /\ last.values = <<0, 2>>
    /\ facts = Evidence(1, 1)

LogsInStep ==
    /\ Len(justifications) = Len(dbResults)
    /\ Len(dbFacts) = 2 * Len(dbResults)
    /\ \A k \in 1 .. Len(dbResults) :
          /\ dbFacts[2 * k - 1] = <<"Inteligencia", justifications[k][2]["Inteligencia"]>>
          /\ dbFacts[2 * k] = <<"Asistencia", justifications[k][2]["Asistencia"]>>
          /\ justifications[k][2] = inferLog[k].passed

AppendOnly ==
    /\ IsPrefix(justifications, justifications')
    /\ IsPrefix(dbFacts, dbFacts')
    /\ IsPrefix(dbResults, dbResults')

\* C10: from empty logs, after any calls of run_inference there are as many
\* justifications as result rows and twice as many fact rows, the k-th result
\* has the fact rows 2k-1 (Inteligencia) and 2k (Asistencia) of the evidence
\* that produced it, and no row or justification is ever removed or altered.
C10_LogsInStep == [](LogsInStep) /\ [][AppendOnly]_vars

C10_Witness ==
    /\ Len(dbResults) = 2
    /\ dbFacts[3] = <<"Inteligencia", 0>>
    /\ dbFacts[1] = <<"Inteligencia", 1>>
    /\ last.outcome = "error"

====
